---- MODULE Spec2Model ----
(***************************************************************************)
(* The vCPU table of src/src/vm_cpu.rs: VmCpus, its per-slot status        *)
(* RwLock and vCPU Mutex, the IdleVmCpu and RunningVmCpu handles, and the  *)
(* threads (physical CPUs) that call add_vcpu, get_vcpu, take_vcpu, drop   *)
(* handles and lock the vCPU mutex through a handle.                       *)
(*                                                                         *)
(* A thread first calls an operation (it is then inside it, spinning on    *)
(* the status lock if the lock is held) and then runs it in one step, from *)
(* the bounds check to the return; the step is enabled once the spin lock  *)
(* can be had.  A section under the write lock is atomic: every access to  *)
(* the status goes through the lock and the section takes no other lock.   *)
(***************************************************************************)
EXTENDS Naturals, FiniteSets

\* Number of threads (physical CPUs) calling into the table.
NumThreads == 2
\* Capacity of the table. The crate imports MAX_CPUS from `drivers`, which is
\* not among these sources; the table is modelled with two slots.
MAX_CPUS == 2
\* Idle handles alive or being asked for at a time, over all threads.
MaxIdle == 2

Threads == 1 .. NumThreads
Slots == 0 .. (MAX_CPUS - 1)
\* The ids the threads pass: every slot's, and MAX_CPUS for the ids out of range.
Ids == 0 .. MAX_CPUS

VARIABLES
    status,     \* status[s]: the VmCpuStatus behind VmCpusInner.status
    readers,    \* readers[s]: read guards of the status RwLock that are alive
    vcpuOwner,  \* vcpuOwner[s]: set of threads holding the guard of VmCpusInner.vcpu
    pc,         \* pc[t]: where thread t is inside a table operation
    arg,        \* arg[t]: the vcpu_id of the operation in progress
    ret,        \* the return made by the step just taken: who, of what, with what
    idleH,      \* idleH[t][s]: IdleVmCpu handles thread t holds for slot s
    runH,       \* runH[t][s]: RunningVmCpu handles thread t holds for slot s
    guest,      \* what the guest and the switch stub do when the vCPU is entered
    state,      \* VmCpu.state: the VmCpuState frame of the vCPU
    guest_id,   \* VmCpu.guest_id: the owner of the vCPU's pages
    hw,         \* hw[c]: the CSRs of physical CPU c
    has_sstc,   \* CpuInfo::get().has_sstc()
    phase,      \* where the call of run_to_exit is
    cpu,        \* the physical CPU that executes run_to_exit, 0 for none
    exit,       \* what the last call of run_to_exit returned
    left,       \* what the last world switch left behind, and found on entry
    runs        \* calls of run_to_exit made so far

tableVars == <<status, readers, vcpuOwner, pc, arg, ret, idleH, runH>>

runVars == <<guest, state, guest_id, hw, has_sstc, phase, cpu, exit, left, runs>>

vars == <<status, readers, vcpuOwner, pc, arg, ret, idleH, runH,
          guest, state, guest_id, hw, has_sstc, phase, cpu, exit, left, runs>>

VmCpuStatus == {"NotPresent", "Available", "Running"}

Error == {"BadCpuId", "VmCpuExists", "VmCpuNotFound", "VmCpuRunning"}

\* Ok(IdleVmCpu), Ok(RunningVmCpu), the end of a drop, a failed assert_eq.
Results == Error \cup {"Idle", "Running", "Dropped", "Panic"}

Ops == {"add_vcpu", "get_vcpu", "take_vcpu", "drop"}

\* The value of ret after a step that returns nothing.
NoRet == [by |-> 0, op |-> "none", id |-> 0, res |-> "None"]

\* idle: outside the table; *_call: inside the operation, before its return.
PcValues == {"idle", "add_call", "get_call", "take_call", "drop_call", "panicked"}

TypeOK ==
    /\ status \in [Slots -> VmCpuStatus]
    /\ readers \in [Slots -> Nat]
    /\ vcpuOwner \in [Slots -> SUBSET Threads]
    /\ pc \in [Threads -> PcValues]
    /\ arg \in [Threads -> Ids]
    /\ ret \in [by : Threads, op : Ops, id : Ids, res : Results] \cup {NoRet}
    /\ idleH \in [Threads -> [Slots -> Nat]]
    /\ runH \in [Threads -> [Slots -> Nat]]

RECURSIVE SumOver(_, _)
SumOver(f, S) ==
    IF S = {} THEN 0
    ELSE LET x == CHOOSE y \in S : TRUE IN f[x] + SumOver(f, S \ {x})

\* Handles alive for slot s, over all threads.
IdleHandles(s) == SumOver([t \in Threads |-> idleH[t][s]], Threads)
RunningHandles(s) == SumOver([t \in Threads |-> runH[t][s]], Threads)
\* Idle handles alive, and calls under way that may return one.
IdleAlive == SumOver([s \in Slots |-> IdleHandles(s)], Slots)
IdleAsked == Cardinality({t \in Threads : pc[t] \in {"add_call", "get_call"}})

(***************************************************************************)
(* VmCpu::run_to_exit: the register-state frame, the CSRs of the physical  *)
(* CPUs, the trap decoders and the guest.                                  *)
(***************************************************************************)

\* Bits of the machine word: the u64 of the source, scaled down.
WordBits == 24
\* Largest value a guest leaves in its virtualization CSRs.
MaxVal == 1
\* Calls of run_to_exit made on the vCPU.
MaxRuns == 2

RECURSIVE Pow2(_)
Pow2(n) == IF n = 0 THEN 1 ELSE 2 * Pow2(n - 1)

\* The number of values of a word; arithmetic on words is modulo Word.
Word == Pow2(WordBits)

RECURSIVE BitOr(_, _)
BitOr(a, b) ==
    IF a = 0 THEN b
    ELSE IF b = 0 THEN a
    ELSE (IF a % 2 = 1 \/ b % 2 = 1 THEN 1 ELSE 0) + 2 * BitOr(a \div 2, b \div 2)

RECURSIVE BitAnd(_, _)
BitAnd(a, b) ==
    IF a = 0 \/ b = 0 THEN 0
    ELSE (IF a % 2 = 1 /\ b % 2 = 1 THEN 1 ELSE 0) + 2 * BitAnd(a \div 2, b \div 2)

RECURSIVE BitXor(_, _)
BitXor(a, b) ==
    IF a = 0 THEN b
    ELSE IF b = 0 THEN a
    ELSE (IF a % 2 = b % 2 THEN 0 ELSE 1) + 2 * BitXor(a \div 2, b \div 2)

\* a << n on a word: the bits shifted out are lost.
Shl(a, n) == (a * Pow2(n)) % Word

\* The CSRs run_to_exit loads before the switch and saves after it.
V1Csrs == {"hgatp", "htimedelta", "vsstatus", "vsie", "vstvec", "vsscratch",
           "vsepc", "vscause", "vstval", "vsatp"}

\* GuestVCpuState: the ten above and vstimecmp.
AllCsrs == V1Csrs \cup {"vstimecmp"}

\* The registers of GeneralPurposeRegisters the model keeps: the SBI
\* function argument and the SBI extension id.
Gprs == {"a0", "a7"}

\* scause: the top bit of the word tells an interrupt, the rest is the code.
InterruptBit == Pow2(WordBits - 1)

IllegalInstruction == 2
VirtualSupervisorEnvCall == 10
GuestInstructionPageFault == 20
GuestLoadPageFault == 21
GuestStorePageFault == 23

\* The exception and interrupt codes the trap decoder knows.
KnownExceptions == (0 .. 10) \cup {12, 13, 15} \cup (20 .. 23)

KnownInterrupts == {1, 2, 5, 6, 9, 10, 12}

NoTrap == [kind |-> "None", code |-> 0]

\* Trap::from_scause: None for a code it does not know.
TrapFromScause(scause) ==
    LET code == scause % InterruptBit IN
    IF scause >= InterruptBit
    THEN IF code \in KnownInterrupts
         THEN [kind |-> "Interrupt", code |-> code] ELSE NoTrap
    ELSE IF code \in KnownExceptions
         THEN [kind |-> "Exception", code |-> code] ELSE NoTrap

\* The SBI base extension, the one extension id the guests of the model use.
EXT_BASE == 16

NoMessage == [some |-> FALSE, ext |-> 0, fid |-> 0]

\* SbiMessage::from_regs(gprs).ok(): None when a7 names no extension.
SbiFromRegs(gprs) ==
    IF gprs["a7"] = EXT_BASE
    THEN [some |-> TRUE, ext |-> gprs["a7"], fid |-> gprs["a0"]]
    ELSE NoMessage

FaultAddr_NoMask(htval, stval) == BitOr(Shl(htval, 2), stval)

\* htval << 2 | stval & 0x03
FaultAddr(htval, stval) == BitOr(Shl(htval, 2), BitAnd(stval, 3))

IsGuestPageFault(trap) ==
    /\ trap.kind = "Exception"
    /\ trap.code \in {GuestInstructionPageFault, GuestLoadPageFault, GuestStorePageFault}

IsEcall(trap) == trap.kind = "Exception" /\ trap.code = VirtualSupervisorEnvCall

NoExit == [kind |-> "None"]

\* The causes a guest exits with: the ECALL, the three guest page faults, an
\* illegal instruction, an exception code the decoder does not know, the
\* supervisor timer interrupt and an interrupt code the decoder does not know.
ScauseValues ==
    {VirtualSupervisorEnvCall, GuestInstructionPageFault, GuestLoadPageFault,
     GuestStorePageFault, IllegalInstruction, 24,
     InterruptBit + 5, InterruptBit + 16}

StvalValues == {3, 6}

HtvalValues == {703710, Word - 1}

HtinstValues == {0, 7}

\* Where the guest traps: an address in the middle of the word, and the last
\* instruction of the address space.
SepcValues == {Pow2(WordBits - 3), Word - 4}

XorConsts == {0, EXT_BASE}

\* What happens when the vCPU is entered: guest.S saves the host context of
\* the CPU in the frame and the guest runs until it traps at pc with the given
\* cause, having XORed its registers with xor and left stamp in the CSRs it
\* can write (0: it wrote none); the stub of the round-trip test only XORs
\* the guest registers and sets scause to the ECALL.
Guests ==
    {g \in [stub : {"guest.S", "test"}, scause : ScauseValues, stval : StvalValues,
            htval : HtvalValues, htinst : HtinstValues, pc : SepcValues,
            xor : XorConsts, stamp : 0 .. MaxVal] :
        g.stub = "test" =>
            /\ g.scause = VirtualSupervisorEnvCall
            /\ g.stval = 3 /\ g.htval = 703710 /\ g.htinst = 0
            /\ g.stamp = 0}

PageOwnerIds == {1, 2}

\* The CSRs a guest can write: hgatp and htimedelta belong to the host.
GuestCsrs == AllCsrs \ {"hgatp", "htimedelta"}

\* A value no guest of the model leaves in a CSR: what other software left.
Junk == MaxVal + 1

\* The trap CSRs after a trap taken by the host itself.
HostTrapState == [scause |-> 13, stval |-> 1, htval |-> 0, htinst |-> 1]

\* The host registers that are live on physical CPU c.
HostImage(c) == c

\* VmCpuState::default() with the pc the caller set: host and guest contexts,
\* virtualization CSRs and trap scratch all zero.
VmCpuStateDefault(sepc) ==
    [host_regs |-> 0,
     gprs |-> [r \in Gprs |-> 0],
     sepc |-> sepc,
     guest_vcpu_csrs |-> [r \in AllCsrs |-> 0],
     trap_csrs |-> [scause |-> 0, stval |-> 0, htval |-> 0, htinst |-> 0]]

NoLeft == [sepc |-> 0, gprs |-> [r \in Gprs |-> 0], host_regs |-> 0,
           csrs |-> [r \in AllCsrs |-> 0],
           trap |-> [scause |-> 0, stval |-> 0, htval |-> 0, htinst |-> 0],
           cpu |-> 0, entry |-> [r \in AllCsrs |-> 0]]

PhaseValues == {"idle", "switch", "snapshot", "save", "classify", "panicked"}

\* VmCpu::new and set_sepc for a guest of G owned by an id of O, on a machine
\* whose CPUs hold what other software left in their CSRs.
VmCpuNew(G, O, S) ==
    /\ guest \in G
    /\ state = VmCpuStateDefault(guest.pc)
    /\ guest_id \in O
    /\ hw = [c \in Threads |-> [csrs |-> [r \in AllCsrs |-> Junk], trap |-> HostTrapState]]
    /\ has_sstc \in S
    /\ phase = "idle"
    /\ cpu = 0
    /\ exit = NoExit
    /\ left = NoLeft
    /\ runs = 0

\* VmCpus::new: every slot NotPresent, both locks free, no handle handed out.
VmCpusNew ==
    /\ status = [s \in Slots |-> "NotPresent"]
    /\ readers = [s \in Slots |-> 0]
    /\ vcpuOwner = [s \in Slots |-> {}]
    /\ pc = [t \in Threads |-> "idle"]
    /\ arg = [t \in Threads |-> 0]
    /\ ret = NoRet
    /\ idleH = [t \in Threads |-> [s \in Slots |-> 0]]
    /\ runH = [t \in Threads |-> [s \in Slots |-> 0]]

\* The table as constructed; the one vCPU whose registers are modelled is new
\* and is never run.
Init ==
    /\ VmCpusNew
    /\ VmCpuNew({CHOOSE g \in Guests : g.stub = "test"}, {1}, {FALSE})

\* self.inner.get(vcpu_id as usize) is Some.
ValidId(id) == id < MAX_CPUS

BadIdError_WrongCode == "VmCpuNotFound"

\* The error of `.ok_or(Error::BadCpuId)?`.
BadIdError == "BadCpuId"

AddAllowed_NotAvailable(st) == st # "Available"

AddAllowed_Always(st) == TRUE

\* The test of add_vcpu on the status it reads: anything but NotPresent is
\* VmCpuExists.
AddAllowed(st) == st = "NotPresent"

CanWrite_IgnoresReaders(s) == TRUE

\* RwLock::write() gets the lock: no read guard is alive (and no write guard:
\* none outlives the step that takes it).
CanWrite(s) == readers[s] = 0

CanRead_WaitsForReaders(s) == readers[s] = 0

\* RwLock::read() gets the lock: no write guard is alive.
CanRead(s) == TRUE

\* The operation op of thread t returns r to its caller.
Return(t, op, r) ==
    /\ pc' = [pc EXCEPT ![t] = "idle"]
    /\ arg' = [arg EXCEPT ![t] = 0]
    /\ ret' = [by |-> t, op |-> op, id |-> arg[t], res |-> r]

\* A thread calls add_vcpu, get_vcpu or take_vcpu with some id.
Call(t, op, id) ==
    /\ pc[t] = "idle"
    /\ op \in {"add_call", "get_call", "take_call"}
    /\ op \in {"add_call", "get_call"} => IdleAlive + IdleAsked < MaxIdle
    /\ pc' = [pc EXCEPT ![t] = op]
    /\ arg' = [arg EXCEPT ![t] = id]
    /\ ret' = NoRet
    /\ UNCHANGED <<status, readers, vcpuOwner, idleH, runH>>
    /\ UNCHANGED runVars

\* add_vcpu: BadCpuId before any lock; else under the write lock the status
\* test, the store and the downgrade of the guard into the IdleVmCpu.
AddVcpu(t) ==
    /\ pc[t] = "add_call"
    /\ LET s == arg[t] IN
       IF ~ValidId(s)
       THEN /\ Return(t, "add_vcpu", BadIdError)
            /\ UNCHANGED <<status, readers, idleH>>
       ELSE /\ CanWrite(s)
            /\ IF ~AddAllowed(status[s])
               THEN /\ Return(t, "add_vcpu", "VmCpuExists")
                    /\ UNCHANGED <<status, readers, idleH>>
               ELSE /\ status' = [status EXCEPT ![s] = "Available"]
                    /\ readers' = [readers EXCEPT ![s] = @ + 1]
                    /\ idleH' = [idleH EXCEPT ![t][s] = @ + 1]
                    /\ Return(t, "add_vcpu", "Idle")
    /\ UNCHANGED <<vcpuOwner, runH>>
    /\ UNCHANGED runVars

GetResult_RunningIsIdle(st) ==
    CASE st = "Available" -> "Idle"
      [] st = "Running" -> "Idle"
      [] OTHER -> "VmCpuNotFound"

\* The match of get_vcpu on the status it reads.
GetResult(st) ==
    CASE st = "Available" -> "Idle"
      [] st = "Running" -> "VmCpuRunning"
      [] OTHER -> "VmCpuNotFound"

GetVcpu_GuardLeaks(t) ==
    /\ pc[t] = "get_call"
    /\ LET s == arg[t] IN
       IF ~ValidId(s)
       THEN /\ Return(t, "get_vcpu", BadIdError)
            /\ UNCHANGED <<readers, idleH>>
       ELSE /\ CanRead(s)
            /\ Return(t, "get_vcpu", GetResult(status[s]))
            /\ readers' = [readers EXCEPT ![s] = @ + 1]
            /\ IF GetResult(status[s]) = "Idle"
               THEN idleH' = [idleH EXCEPT ![t][s] = @ + 1]
               ELSE UNCHANGED idleH
    /\ UNCHANGED <<status, vcpuOwner, runH>>
    /\ UNCHANGED runVars

\* get_vcpu: BadCpuId before any lock; else under the read lock the match;
\* the guard moves into the IdleVmCpu or is dropped with the error.
GetVcpu(t) ==
    /\ pc[t] = "get_call"
    /\ LET s == arg[t] IN
       IF ~ValidId(s)
       THEN /\ Return(t, "get_vcpu", BadIdError)
            /\ UNCHANGED <<readers, idleH>>
       ELSE /\ CanRead(s)
            /\ Return(t, "get_vcpu", GetResult(status[s]))
            /\ IF GetResult(status[s]) = "Idle"
               THEN /\ readers' = [readers EXCEPT ![s] = @ + 1]
                    /\ idleH' = [idleH EXCEPT ![t][s] = @ + 1]
               ELSE UNCHANGED <<readers, idleH>>
    /\ UNCHANGED <<status, vcpuOwner, runH>>
    /\ UNCHANGED runVars

TakeResult_RunningAgain(st) ==
    CASE st = "Available" -> "Running"
      [] st = "Running" -> "Running"
      [] st = "NotPresent" -> "VmCpuNotFound"

TakeResult_ErrorsSwapped(st) ==
    CASE st = "Available" -> "Running"
      [] st = "Running" -> "VmCpuNotFound"
      [] st = "NotPresent" -> "VmCpuRunning"

\* The match of take_vcpu on the status it reads.
TakeResult(st) ==
    CASE st = "Available" -> "Running"
      [] st = "Running" -> "VmCpuRunning"
      [] st = "NotPresent" -> "VmCpuNotFound"

\* take_vcpu: BadCpuId before any lock; else under the write lock the match
\* and, for Available, the store of Running and the new RunningVmCpu.
TakeVcpu(t) ==
    /\ pc[t] = "take_call"
    /\ LET s == arg[t] IN
       IF ~ValidId(s)
       THEN /\ Return(t, "take_vcpu", BadIdError)
            /\ UNCHANGED <<status, runH>>
       ELSE /\ CanWrite(s)
            /\ Return(t, "take_vcpu", TakeResult(status[s]))
            /\ IF TakeResult(status[s]) = "Running"
               THEN /\ status' = [status EXCEPT ![s] = "Running"]
                    /\ runH' = [runH EXCEPT ![t][s] = @ + 1]
               ELSE UNCHANGED <<status, runH>>
    /\ UNCHANGED <<readers, vcpuOwner, idleH>>
    /\ UNCHANGED runVars

MayDropRunning_GuardOutlives(t, s) == runH[t][s] > 0

\* A guard of the vCPU mutex borrows the handle it was locked through (deref
\* ties it to the borrow of the handle), so the handle outlives the guard.
MayDropRunning(t, s) == runH[t][s] > 0 /\ t \notin vcpuOwner[s]

MayDropIdle_GuardOutlives(t, s) == idleH[t][s] > 0

MayDropIdle(t, s) == idleH[t][s] > 0 /\ (t \in vcpuOwner[s] => idleH[t][s] > 1)

\* A thread lets a RunningVmCpu go out of scope: Drop::drop is entered.
CallDrop(t, s) ==
    /\ pc[t] = "idle"
    /\ MayDropRunning(t, s)
    /\ pc' = [pc EXCEPT ![t] = "drop_call"]
    /\ arg' = [arg EXCEPT ![t] = s]
    /\ ret' = NoRet
    /\ UNCHANGED <<status, readers, vcpuOwner, idleH, runH>>
    /\ UNCHANGED runVars

DropRunning_NoStore(t) ==
    /\ pc[t] = "drop_call"
    /\ LET s == arg[t] IN
       /\ CanWrite(s)
       /\ runH' = [runH EXCEPT ![t][s] = @ - 1]
       /\ Return(t, "drop", "Dropped")
    /\ UNCHANGED <<status, readers, vcpuOwner, idleH>>
    /\ UNCHANGED runVars

\* RunningVmCpu::drop: under the write lock the assert_eq and the store of
\* Available; the handle is gone when drop returns (or unwinds).
DropRunning(t) ==
    /\ pc[t] = "drop_call"
    /\ LET s == arg[t] IN
       /\ CanWrite(s)
       /\ runH' = [runH EXCEPT ![t][s] = @ - 1]
       /\ IF status[s] = "Running"
          THEN /\ status' = [status EXCEPT ![s] = "Available"]
               /\ Return(t, "drop", "Dropped")
          ELSE /\ pc' = [pc EXCEPT ![t] = "panicked"]
               /\ ret' = [by |-> t, op |-> "drop", id |-> s, res |-> "Panic"]
               /\ UNCHANGED <<status, arg>>
    /\ UNCHANGED <<readers, vcpuOwner, idleH>>
    /\ UNCHANGED runVars

\* An IdleVmCpu goes out of scope: its RwLockReadGuard is dropped.
DropIdle(t, s) ==
    /\ pc[t] = "idle"
    /\ MayDropIdle(t, s)
    /\ idleH' = [idleH EXCEPT ![t][s] = @ - 1]
    /\ readers' = [readers EXCEPT ![s] = @ - 1]
    /\ ret' = NoRet
    /\ UNCHANGED <<status, vcpuOwner, pc, arg, runH>>
    /\ UNCHANGED runVars

ReachesVcpu_WithoutHandle(t, s) == status[s] # "NotPresent"

\* Only a handle derefs to the slot's Mutex<VmCpu>.
ReachesVcpu(t, s) == idleH[t][s] > 0 \/ runH[t][s] > 0

\* handle.lock(): the spin mutex is taken once it is free.
LockVcpu(t, s) ==
    /\ pc[t] = "idle"
    /\ ReachesVcpu(t, s)
    /\ vcpuOwner[s] = {}
    /\ vcpuOwner' = [vcpuOwner EXCEPT ![s] = @ \cup {t}]
    /\ ret' = NoRet
    /\ UNCHANGED <<status, readers, pc, arg, idleH, runH>>
    /\ UNCHANGED runVars

\* The MutexGuard is dropped.
UnlockVcpu(t, s) ==
    /\ pc[t] = "idle"
    /\ t \in vcpuOwner[s]
    /\ vcpuOwner' = [vcpuOwner EXCEPT ![s] = @ \ {t}]
    /\ ret' = NoRet
    /\ UNCHANGED <<status, readers, pc, arg, idleH, runH>>
    /\ UNCHANGED runVars

Next ==
    \/ \E t \in Threads, op \in {"add_call", "get_call", "take_call"}, id \in Ids :
           Call(t, op, id)
    \/ \E t \in Threads : AddVcpu(t)
    \/ \E t \in Threads : GetVcpu(t)
    \/ \E t \in Threads : TakeVcpu(t)
    \/ \E t \in Threads, s \in Slots : CallDrop(t, s)
    \/ \E t \in Threads : DropRunning(t)
    \/ \E t \in Threads, s \in Slots : DropIdle(t, s)
    \/ \E t \in Threads, s \in Slots : LockVcpu(t, s)
    \/ \E t \in Threads, s \in Slots : UnlockVcpu(t, s)

Spec == Init /\ [][Next]_vars

\* Every thread is scheduled fairly: a thread inside an operation keeps
\* trying its spin lock, and gets it if the lock stays free. A spin lock
\* gives no more: a try that finds the lock held fails, however often the
\* lock was free in between. Callers are not obliged to call or to drop.
FairSpec ==
    /\ Spec
    /\ \A t \in Threads :
           /\ WF_vars(AddVcpu(t))
           /\ WF_vars(GetVcpu(t))
           /\ WF_vars(TakeVcpu(t))
           /\ WF_vars(DropRunning(t))

(***************************************************************************)
(* VmCpu::run_to_exit, step by step, on the physical CPU that calls it.    *)
(* The caller holds the vCPU through &mut self, so there is one call at a  *)
(* time; the table plays no part and stays as constructed.                 *)
(***************************************************************************)

SwitchedCsrs_NoVsatp == (V1Csrs \ {"vsatp"}) \cup (IF has_sstc THEN {"vstimecmp"} ELSE {})

\* The CSRs moved between frame and hardware: vstimecmp only with Sstc.
SwitchedCsrs == V1Csrs \cup (IF has_sstc THEN {"vstimecmp"} ELSE {})

PhaseAfter_SaveFirst(p) ==
    CASE p = "switch" -> "save"
      [] p = "save" -> "snapshot"
      [] p = "snapshot" -> "classify"

\* The order of the steps that follow the load: the switch, the snapshot of
\* the trap CSRs, the save of the virtualization CSRs, the classification.
PhaseAfter(p) ==
    CASE p = "switch" -> "snapshot"
      [] p = "snapshot" -> "save"
      [] p = "save" -> "classify"

\* run_to_exit is entered on CPU c and writes the CSRs from the frame.
LoadCsrs(c) ==
    /\ phase = "idle"
    /\ runs < MaxRuns
    /\ cpu' = c
    /\ runs' = runs + 1
    /\ hw' = [hw EXCEPT ![c].csrs =
                 [r \in AllCsrs |->
                     IF r \in SwitchedCsrs THEN state.guest_vcpu_csrs[r] ELSE @[r]]]
    /\ phase' = "switch"
    /\ exit' = NoExit
    /\ UNCHANGED <<guest, state, guest_id, has_sstc, left>>
    /\ UNCHANGED tableVars

\* The CSRs the guest of this machine can write.
GuestWritable == GuestCsrs \ (IF has_sstc THEN {} ELSE {"vstimecmp"})

\* _run_guest: the stub switches to the guest and back when the guest traps.
\* It writes the host context, the guest registers and sepc of the frame; the
\* guest leaves its values in the CSRs and the trap its cause.
RunGuest ==
    /\ phase = "switch"
    /\ LET real == guest.stub = "guest.S"
           exitCsrs == [r \in AllCsrs |->
                           IF real /\ guest.stamp > 0 /\ r \in GuestWritable
                           THEN guest.stamp ELSE hw[cpu].csrs[r]]
           exitTrap == [scause |-> guest.scause, stval |-> guest.stval,
                        htval |-> guest.htval, htinst |-> guest.htinst]
           frame == [state EXCEPT
                        !.host_regs = IF real THEN HostImage(cpu) ELSE @,
                        !.gprs = [r \in Gprs |-> BitXor(@[r], guest.xor)],
                        !.sepc = IF real THEN guest.pc ELSE @]
       IN /\ state' = frame
          /\ hw' = [hw EXCEPT ![cpu] = [csrs |-> exitCsrs, trap |-> exitTrap]]
          /\ left' = [sepc |-> frame.sepc, gprs |-> state.gprs,
                      host_regs |-> frame.host_regs, csrs |-> exitCsrs,
                      trap |-> exitTrap, cpu |-> cpu, entry |-> hw[cpu].csrs]
    /\ phase' = PhaseAfter("switch")
    /\ UNCHANGED <<guest, guest_id, has_sstc, cpu, exit, runs>>
    /\ UNCHANGED tableVars

\* self.state.trap_csrs.* = CSR.*.get() for scause, stval, htval, htinst.
SnapshotTrap ==
    /\ phase = "snapshot"
    /\ state' = [state EXCEPT !.trap_csrs = hw[cpu].trap]
    /\ phase' = PhaseAfter("snapshot")
    /\ UNCHANGED <<guest, guest_id, hw, has_sstc, cpu, exit, left, runs>>
    /\ UNCHANGED tableVars

\* self.state.guest_vcpu_csrs.* = CSR.*.get().
SaveCsrs ==
    /\ phase = "save"
    /\ state' = [state EXCEPT !.guest_vcpu_csrs =
                    [r \in AllCsrs |-> IF r \in SwitchedCsrs THEN hw[cpu].csrs[r] ELSE @[r]]]
    /\ phase' = PhaseAfter("save")
    /\ UNCHANGED <<guest, guest_id, hw, has_sstc, cpu, exit, left, runs>>
    /\ UNCHANGED tableVars

\* The scause the match reads: the snapshot.
ClassifiedScause == state.trap_csrs.scause

\* run_to_exit returns e.
ReturnExit(e) ==
    /\ exit' = e
    /\ phase' = "idle"
    /\ cpu' = 0

\* run_to_exit panics.
PanicExit(why) ==
    /\ exit' = [kind |-> "Panic", why |-> why]
    /\ phase' = "panicked"
    /\ cpu' = cpu

EcallFrame_WritesA0(sepc) == [state EXCEPT !.sepc = sepc, !.gprs["a0"] = 0]

\* self.state.guest_regs.sepc += 4 leaves sepc in the frame.
EcallFrame(sepc) == [state EXCEPT !.sepc = sepc]

\* The match on Trap::from_scause(..).unwrap(). sepc += 4 on the last words
\* panics where the build checks overflow and wraps where it does not.
Classify ==
    /\ phase = "classify"
    /\ LET trap == TrapFromScause(ClassifiedScause) IN
       CASE trap = NoTrap ->
                /\ PanicExit("unwrap")
                /\ UNCHANGED state
         [] IsEcall(trap) ->
                \/ /\ state.sepc + 4 < Word
                   /\ state' = EcallFrame(state.sepc + 4)
                   /\ ReturnExit([kind |-> "Ecall", msg |-> SbiFromRegs(state.gprs)])
                \/ /\ state.sepc + 4 >= Word
                   /\ state' = EcallFrame((state.sepc + 4) % Word)
                   /\ ReturnExit([kind |-> "Ecall", msg |-> SbiFromRegs(state.gprs)])
                \/ /\ state.sepc + 4 >= Word
                   /\ PanicExit("overflow")
                   /\ UNCHANGED state
         [] IsGuestPageFault(trap) ->
                /\ ReturnExit([kind |-> "PageFault",
                               addr |-> FaultAddr(state.trap_csrs.htval, state.trap_csrs.stval),
                               owner |-> guest_id])
                /\ UNCHANGED state
         [] OTHER ->
                /\ ReturnExit([kind |-> "Other", trap |-> state.trap_csrs])
                /\ UNCHANGED state
    /\ UNCHANGED <<guest, guest_id, hw, has_sstc, left, runs>>
    /\ UNCHANGED tableVars

\* Once the host goes on past the snapshot, a trap it takes itself, or a CSR
\* it writes, replaces the trap CSRs of CPU c.
Clobber(c) ==
    /\ c = cpu
    /\ phase \in {"save", "classify"}
    /\ hw[c].trap # HostTrapState
    /\ hw' = [hw EXCEPT ![c].trap = HostTrapState]
    /\ UNCHANGED <<guest, state, guest_id, has_sstc, phase, cpu, exit, left, runs>>
    /\ UNCHANGED tableVars

\* A new vCPU of any owner with any guest, on a machine with or without Sstc.
InitRun ==
    /\ VmCpusNew
    /\ VmCpuNew(Guests, PageOwnerIds, BOOLEAN)

NextRun ==
    \/ \E c \in Threads : LoadCsrs(c)
    \/ RunGuest
    \/ SnapshotTrap
    \/ SaveCsrs
    \/ Classify
    \/ \E c \in Threads : Clobber(c)

SpecRun == InitRun /\ [][NextRun]_vars


(***************************************************************************)
(* Properties of the vCPU table.                                           *)
(***************************************************************************)

\* The step just taken made operation op on id return (ret is its label).
Returns(op, s) == ret'.op = op /\ ret'.id = s

\* C1: for every slot at most one Running handle exists, and the slot's
\* status is Running exactly when one Running handle for it exists, under
\* any interleaving of the threads' calls and drops.
C1_OneRunningHandle ==
    \A s \in Slots :
        /\ RunningHandles(s) <= 1
        /\ status[s] = "Running" <=> RunningHandles(s) = 1

\* A Running handle is alive while another thread is inside take_vcpu on the
\* same slot.
C1_Witness ==
    \E s \in Slots, t, u \in Threads :
        /\ t # u
        /\ runH[t][s] = 1
        /\ status[s] = "Running"
        /\ pc[u] = "take_call" /\ arg[u] = s

\* C2: while an Idle handle for a slot is alive the slot's status is and
\* stays Available, no Running handle for it exists, and no take_vcpu on the
\* slot returns: it stays inside the call until every Idle handle is dropped.
C2_IdlePinsAvailable ==
    /\ [](\A s \in Slots :
            IdleHandles(s) > 0 => status[s] = "Available" /\ RunningHandles(s) = 0)
    /\ [][\A s \in Slots :
            IdleHandles(s) > 0 =>
                /\ status'[s] = "Available"
                /\ \A t \in Threads :
                       pc[t] = "take_call" /\ arg[t] = s =>
                           pc'[t] = "take_call" /\ runH'[t] = runH[t]]_vars

\* Two Idle handles of one slot are alive, held by two threads, while a
\* take_vcpu on the slot is under way.
C2_Witness ==
    \E s \in Slots, t, u \in Threads :
        /\ t # u
        /\ idleH[t][s] > 0 /\ idleH[u][s] > 0
        /\ \E w \in Threads : pc[w] = "take_call" /\ arg[w] = s

C4_Transitions ==
    /\ \A s \in Slots : status[s] = "NotPresent"
    /\ [][\A s \in Slots :
            /\ status[s] # "NotPresent" => status'[s] # "NotPresent"
            /\ status'[s] # status[s] =>
                \/ /\ status[s] = "NotPresent" /\ status'[s] = "Available"
                   /\ Returns("add_vcpu", s) /\ ret'.res = "Idle"
                \/ /\ status[s] = "Available" /\ status'[s] = "Running"
                   /\ Returns("take_vcpu", s) /\ ret'.res = "Running"
                \/ /\ status[s] = "Running" /\ status'[s] = "Available"
                   /\ Returns("drop", s) /\ ret'.res = "Dropped"]_vars

\* A Running handle has just been dropped: the slot has gone through all
\* three transitions.
C4_Witness ==
    /\ ret.op = "drop" /\ ret.res = "Dropped"
    /\ status[ret.id] = "Available"

\* C5: an add_vcpu(id), id < MAX_CPUS, that finds the slot NotPresent (the
\* first to run on it, every slot starting NotPresent) succeeds and leaves it
\* Available; the slot is never NotPresent again, and every add_vcpu(id) that
\* runs later returns VmCpuExists and leaves the status, Available or
\* Running, as it is.
C5_AddOnce ==
    /\ \A s \in Slots : status[s] = "NotPresent"
    /\ [][\A s \in Slots :
            /\ status[s] # "NotPresent" => status'[s] # "NotPresent"
            /\ Returns("add_vcpu", s) =>
                IF status[s] = "NotPresent"
                THEN /\ ret'.res = "Idle"
                     /\ status'[s] = "Available"
                     /\ idleH'[ret'.by][s] = idleH[ret'.by][s] + 1
                ELSE /\ ret'.res = "VmCpuExists"
                     /\ status'[s] = status[s]
                     /\ idleH' = idleH]_vars

\* A second add_vcpu has just failed with VmCpuExists on a slot that is
\* Running by then.
C5_Witness ==
    /\ ret.op = "add_vcpu" /\ ret.res = "VmCpuExists"
    /\ status[ret.id] = "Running"


\* C6: the drop of a Running handle leaves its slot Available; an Available
\* slot stays Available until a take_vcpu claims it, and a take_vcpu that
\* runs on an Available slot succeeds: so take_vcpu after the drop, with no
\* other claim in between, succeeds again.
C6_DropThenReclaim ==
    [][\A s \in Slots :
          /\ Returns("drop", s) => ret'.res = "Dropped" /\ status'[s] = "Available"
          /\ status[s] = "Available" /\ status'[s] # "Available" =>
                Returns("take_vcpu", s) /\ ret'.res = "Running"
          /\ status[s] = "Available" /\ Returns("take_vcpu", s) =>
                /\ ret'.res = "Running"
                /\ status'[s] = "Running"
                /\ runH'[ret'.by][s] = runH[ret'.by][s] + 1]_vars

\* A Running handle has just been dropped, the slot is Available and free of
\* read guards, and the next take_vcpu on it is already under way.
C6_Witness ==
    /\ ret.op = "drop" /\ ret.res = "Dropped"
    /\ status[ret.id] = "Available" /\ readers[ret.id] = 0
    /\ pc[ret.by] = "idle"
    /\ \E u \in Threads : pc[u] = "take_call" /\ arg[u] = ret.id

\* The call thread t is inside, if it is inside one with an id out of range.
BadCall(t) == pc[t] \in {"add_call", "get_call", "take_call"} /\ arg[t] >= MAX_CPUS

\* C7: add_vcpu, get_vcpu and take_vcpu with an id >= MAX_CPUS return
\* BadCpuId in every state of the table: the call never waits for a lock,
\* and its return leaves every status, every lock and every handle alone.
C7_BadCpuId ==
    /\ [](\A t \in Threads :
            /\ (BadCall(t) /\ pc[t] = "add_call") => ENABLED AddVcpu(t)
            /\ (BadCall(t) /\ pc[t] = "get_call") => ENABLED GetVcpu(t)
            /\ (BadCall(t) /\ pc[t] = "take_call") => ENABLED TakeVcpu(t))
    /\ [][\A t \in Threads :
            BadCall(t) /\ pc'[t] # pc[t] =>
                /\ ret'.by = t /\ ret'.id = arg[t] /\ ret'.res = "BadCpuId"
                /\ pc'[t] = "idle"
                /\ UNCHANGED <<status, readers, vcpuOwner, idleH, runH>>]_vars

\* A take_vcpu with the id MAX_CPUS has just returned BadCpuId while a slot
\* is read-locked and another is Running.
C7_Witness ==
    /\ ret.op = "take_vcpu" /\ ret.id >= MAX_CPUS /\ ret.res = "BadCpuId"
    /\ \E s \in Slots : readers[s] > 0
    /\ \E s \in Slots : status[s] = "Running"

\* C8: the result of a get_vcpu(id) or take_vcpu(id), id < MAX_CPUS, is fixed
\* by the slot's status when it takes the status lock: Available gives the
\* handle (Idle for get_vcpu, Running for take_vcpu), Running gives
\* VmCpuRunning, NotPresent gives VmCpuNotFound; so on the fresh table both
\* return VmCpuNotFound.
C8_ResultByStatus ==
    [][\A s \in Slots :
          /\ Returns("get_vcpu", s) =>
                /\ status[s] = "Available" =>
                      ret'.res = "Idle" /\ idleH'[ret'.by][s] = idleH[ret'.by][s] + 1
                /\ status[s] = "Running" => ret'.res = "VmCpuRunning"
                /\ status[s] = "NotPresent" => ret'.res = "VmCpuNotFound"
          /\ Returns("take_vcpu", s) =>
                /\ status[s] = "Available" =>
                      ret'.res = "Running" /\ runH'[ret'.by][s] = runH[ret'.by][s] + 1
                /\ status[s] = "Running" => ret'.res = "VmCpuRunning"
                /\ status[s] = "NotPresent" => ret'.res = "VmCpuNotFound"]_vars

\* On the table as constructed a take_vcpu has just returned VmCpuNotFound.
C8_Witness ==
    /\ ret.op = "take_vcpu" /\ ret.id < MAX_CPUS /\ ret.res = "VmCpuNotFound"
    /\ \A s \in Slots : status[s] = "NotPresent"

\* C9: while a Running handle of a slot is alive, no thread but its holder
\* holds the slot's vCPU mutex, and none but its holder can lock it.
C9_SoleMutator ==
    \A s \in Slots, t \in Threads :
        runH[t][s] > 0 =>
            /\ vcpuOwner[s] \subseteq {t}
            /\ \A u \in Threads \ {t} : ~ENABLED LockVcpu(u, s)

\* The holder of a Running handle has locked the vCPU mutex through it while
\* another thread is inside get_vcpu on the slot.
C9_Witness ==
    \E s \in Slots, t, u \in Threads :
        /\ t # u
        /\ runH[t][s] = 1 /\ vcpuOwner[s] = {t}
        /\ pc[u] = "get_call" /\ arg[u] = s

\* C10 as stated: from the successful take_vcpu to its drop the Running
\* handle holds the slot's vCPU mutex, which the drop releases after it has
\* restored the status.
C10_HandleHoldsMutex ==
    \A s \in Slots, t \in Threads : runH[t][s] > 0 => vcpuOwner[s] = {t}

\* C10 amended: from the successful take_vcpu to its drop only the holder of
\* the Running handle can have the slot's vCPU mutex; take_vcpu does not lock
\* it and the drop does not unlock it: a guard taken through the handle is
\* gone before the drop is entered, so the mutex is free throughout the
\* drop, which only restores the status to Available.
C10_ExclusiveUntilDrop ==
    /\ [](\A s \in Slots, t \in Threads :
            /\ runH[t][s] > 0 => vcpuOwner[s] \subseteq {t}
            /\ pc[t] = "drop_call" /\ arg[t] = s => vcpuOwner[s] = {})
    /\ [][\A s \in Slots :
            /\ Returns("take_vcpu", s) => vcpuOwner' = vcpuOwner
            /\ Returns("drop", s) =>
                  /\ status'[s] = "Available"
                  /\ vcpuOwner' = vcpuOwner /\ vcpuOwner[s] = {}]_vars

\* The holder of a Running handle, having locked and unlocked the vCPU mutex
\* or not, has just dropped the handle: the slot is Available, the mutex free.
C10_Witness ==
    /\ ret.op = "drop" /\ ret.res = "Dropped"
    /\ status[ret.id] = "Available" /\ vcpuOwner[ret.id] = {}
    /\ \A t \in Threads : runH[t][ret.id] = 0


\* Thread t is inside a call that takes the status lock of slot s.
AsksStatus(t, s) ==
    pc[t] \in {"add_call", "get_call", "take_call", "drop_call"} /\ arg[t] = s

\* C11 as stated: a thread that holds a slot's vCPU mutex holds an Idle or a
\* Running handle of that slot, and no thread asks for a slot's status lock
\* while it holds that slot's vCPU mutex.
C11_StatusBeforeVcpu ==
    \A s \in Slots, t \in Threads :
        t \in vcpuOwner[s] =>
            /\ idleH[t][s] > 0 \/ runH[t][s] > 0
            /\ ~AsksStatus(t, s)

\* C11 amended: a thread that holds a slot's vCPU mutex holds an Idle or a
\* Running handle of that slot; the operations of the table lock no vCPU
\* mutex, and the drop of a Running handle, the one request for the status
\* lock the table makes by itself, is never under way while its thread holds
\* the slot's vCPU mutex. (A caller may still call add_vcpu, get_vcpu or
\* take_vcpu on the slot whose mutex it holds.)
C11_VcpuOnlyThroughHandle ==
    /\ [](\A s \in Slots, t \in Threads :
            t \in vcpuOwner[s] =>
                /\ idleH[t][s] > 0 \/ runH[t][s] > 0
                /\ ~(pc[t] = "drop_call" /\ arg[t] = s))
    /\ [][ret' # NoRet => vcpuOwner' = vcpuOwner]_vars

\* A thread holds a slot's vCPU mutex, locked through its Idle handle, and is
\* inside get_vcpu on the same slot.
C11_Witness ==
    \E s \in Slots, t \in Threads :
        /\ t \in vcpuOwner[s] /\ idleH[t][s] > 0
        /\ pc[t] = "get_call" /\ arg[t] = s

\* C18: the assert_eq of the drop never fails: a drop that is under way finds
\* the status Running whenever it gets the write lock, in every interleaving;
\* no thread ever panics.
C18_DropFindsRunning ==
    /\ \A t \in Threads :
           /\ pc[t] # "panicked"
           /\ pc[t] = "drop_call" => status[arg[t]] = "Running" /\ runH[t][arg[t]] = 1
    /\ ret.res # "Panic"

\* A drop is under way while another thread is inside take_vcpu on the slot.
C18_Witness ==
    \E t, u \in Threads :
        /\ t # u
        /\ pc[t] = "drop_call"
        /\ pc[u] = "take_call" /\ arg[u] = arg[t]


\* The step returns from get_vcpu, or from add_vcpu or take_vcpu with an error.
ReturnsNoEffect ==
    \/ ret'.op = "get_vcpu"
    \/ ret'.op \in {"add_vcpu", "take_vcpu"} /\ ret'.res \in Error

\* The step returns from a successful add_vcpu, take_vcpu or handle drop.
ReturnsEffect ==
    \/ ret'.op \in {"add_vcpu", "take_vcpu"} /\ ret'.res \notin Error
    \/ ret'.op = "drop" /\ ret'.res = "Dropped"

\* The status of every slot but the addressed one is unchanged.
OnlyAddressed ==
    \A s \in Slots : s # ret'.id => status'[s] = status[s]

\* C20 as stated: every get_vcpu, and every add_vcpu or take_vcpu that
\* returns an error, leaves every status unchanged and holds no status lock
\* after it returns; a successful add_vcpu, take_vcpu or drop changes the
\* status of the addressed slot only.
C20_NoLockAfterReturn ==
    [][/\ ReturnsNoEffect => status' = status /\ readers' = readers
       /\ ReturnsEffect => OnlyAddressed]_vars

\* C20 amended: a call that returns an error leaves every status unchanged and
\* holds no status lock after it returns; a successful get_vcpu leaves every
\* status unchanged and keeps exactly one read guard, of the addressed slot,
\* inside the IdleVmCpu it returns; a successful add_vcpu, take_vcpu or drop
\* changes the status of the addressed slot, and of no other.
C20_FrameOfReturns ==
    [][/\ ret'.res \in Error => status' = status /\ readers' = readers
       /\ ret'.op = "get_vcpu" /\ ret'.res = "Idle" =>
              /\ status' = status
              /\ readers' = [readers EXCEPT ![ret'.id] = @ + 1]
       /\ ReturnsEffect =>
              /\ OnlyAddressed
              /\ status'[ret'.id] # status[ret'.id]]_vars

\* get_vcpu has just returned an IdleVmCpu: its read guard is alive.
C20_Witness ==
    /\ ret.op = "get_vcpu" /\ ret.res = "Idle"
    /\ readers[ret.id] > 0 /\ idleH[ret.by][ret.id] > 0
    /\ \E s \in Slots : s # ret.id /\ status[s] = "Running"


\* Thread t is inside an operation that has not returned.
Pending(t) == pc[t] \in {"add_call", "get_call", "take_call", "drop_call"}

\* Every Idle handle is dropped again, and no thread that holds an Idle
\* handle calls add_vcpu or take_vcpu on the handle's slot.
IdleHandlesAreDropped ==
    /\ \A t \in Threads, s \in Slots : []<>(idleH[t][s] = 0)
    /\ [](\A t \in Threads, s \in Slots :
            idleH[t][s] > 0 => ~(pc[t] \in {"add_call", "take_call"} /\ arg[t] = s))

\* C19 as stated: if every Idle handle is eventually dropped by a thread that
\* does not first call add_vcpu or take_vcpu on its slot, then under fair
\* scheduling every pending add_vcpu, get_vcpu, take_vcpu and drop returns.
C19_NoCallBlocksForever ==
    IdleHandlesAreDropped =>
        \A t \in Threads : Pending(t) ~> (pc[t] = "idle")

\* No other thread than t is inside add_vcpu, take_vcpu or a drop on slot s.
NoWriterBut(t, s) ==
    \A u \in Threads \ {t} :
        ~(pc[u] \in {"add_call", "take_call", "drop_call"} /\ arg[u] = s)

\* No read guard of slot s is alive and no other thread than t is inside a
\* call on it.
LeftAloneFor(t, s) ==
    /\ readers[s] = 0
    /\ \A u \in Threads \ {t} : ~(Pending(u) /\ arg[u] = s)

\* C19 amended: under fair scheduling a call with an id out of range returns;
\* a pending get_vcpu on a slot returns if from some point on no other thread
\* is inside add_vcpu, take_vcpu or a drop on the slot, whatever read guards
\* are alive; a pending add_vcpu, take_vcpu or drop on a slot returns if from
\* some point on no read guard of the slot is alive and no other thread is
\* inside a call on it. While get_vcpu calls keep succeeding on the slot the
\* writer may spin forever.
C19_ReturnsOnceLeftAlone ==
    /\ \A t \in Threads :
           (Pending(t) /\ pc[t] # "drop_call" /\ ~ValidId(arg[t])) ~> (pc[t] = "idle")
    /\ \A t \in Threads, s \in Slots :
           <>[]NoWriterBut(t, s) =>
               ((pc[t] = "get_call" /\ arg[t] = s) ~> (pc[t] = "idle"))
    /\ \A t \in Threads, s \in Slots :
           <>[]LeftAloneFor(t, s) =>
               ((pc[t] \in {"add_call", "take_call", "drop_call"} /\ arg[t] = s)
                   ~> (pc[t] = "idle"))

\* take_vcpu is pending on a slot while another thread, itself inside
\* get_vcpu on that slot, holds an Idle handle of it.
C19_Witness ==
    \E t, u \in Threads, s \in Slots :
        /\ t # u
        /\ pc[t] = "take_call" /\ arg[t] = s
        /\ idleH[u][s] > 0 /\ idleH[t][s] = 0
        /\ pc[u] = "get_call" /\ arg[u] = s


(***************************************************************************)
(* Claims about run_to_exit, checked under SpecRun.                        *)
(***************************************************************************)

\* A call of run_to_exit has ended, by a return or by a panic.
Finished == (phase = "idle" /\ runs > 0) \/ phase = "panicked"

\* A call of run_to_exit has returned.
Returned == phase = "idle" /\ runs > 0

\* The scause the guest exit left is the ECALL, or one of the page faults.
LeftEcall == left.trap.scause = VirtualSupervisorEnvCall

LeftPageFault ==
    left.trap.scause \in
        {GuestInstructionPageFault, GuestLoadPageFault, GuestStorePageFault}

\* C12 as stated: run_to_exit does not panic on the trap cause; for every
\* scause the guest exit leaves, known or not, other than the ECALL and the
\* three guest page faults, it returns Other with the trap scratch as
\* snapshotted.
C12_OtherForEveryCause ==
    (Finished /\ ~LeftEcall /\ ~LeftPageFault) =>
        /\ phase = "idle"
        /\ exit = [kind |-> "Other", trap |-> left.trap]

\* C13 as stated: after run_to_exit sepc is what the switch left plus 4
\* (on words) exactly when the exit is the ECALL, with or without a decoded
\* message and for every sepc; otherwise sepc is what the switch left.
C13_SepcAdvancedOnEcall ==
    Finished =>
        IF LeftEcall
        THEN /\ exit.kind = "Ecall"
             /\ state.sepc = (left.sepc + 4) % Word
        ELSE state.sepc = left.sepc

\* C14: when the snapshotted scause is a guest instruction, load or store
\* page fault, run_to_exit returns PageFault with the address
\* (htval << 2) | (stval & 3) of the snapshotted htval and stval, tagged with
\* the owner of the vCPU; htval = 0xABCDE and stval = 3 give 0x2AF37B.
C14_PageFaultAddress ==
    (Finished /\ LeftPageFault) =>
        /\ phase = "idle"
        /\ state.trap_csrs = left.trap
        /\ exit = [kind |-> "PageFault",
                   addr |-> ((left.trap.htval * 4) % Word) + (left.trap.stval % 4),
                   owner |-> guest_id]
        /\ (left.trap.htval = 703710 /\ left.trap.stval = 3) => exit.addr = 2814843

\* A store page fault of the guest at htval = 0xABCDE, stval = 3 was returned.
C14_Witness ==
    /\ Returned
    /\ left.trap.scause = GuestStorePageFault
    /\ left.trap.htval = 703710 /\ left.trap.stval = 3
    /\ exit.kind = "PageFault" /\ exit.addr = 2814843 /\ exit.owner = 2

\* The exit kind the snapshot calls for.
KindOfSnapshot ==
    IF state.trap_csrs.scause = VirtualSupervisorEnvCall THEN "Ecall"
    ELSE IF state.trap_csrs.scause \in
                {GuestInstructionPageFault, GuestLoadPageFault, GuestStorePageFault}
         THEN "PageFault"
         ELSE "Other"

\* C15: the steps of run_to_exit come in this order: every V=1 CSR is written
\* from the frame before the stub is invoked; after the stub the trap CSRs are
\* snapshotted before any other CSR access and before the virtualization
\* CSRs are saved; the classification comes last and reads the snapshot only.
C15_StepOrder ==
    [][/\ phase' # phase =>
             <<phase, phase'>> \in
                 {<<"idle", "switch">>, <<"switch", "snapshot">>,
                  <<"snapshot", "save">>, <<"save", "classify">>,
                  <<"classify", "idle">>, <<"classify", "panicked">>}
       /\ phase' = "switch" /\ phase = "idle" =>
             \A r \in V1Csrs : hw'[cpu'].csrs[r] = state.guest_vcpu_csrs[r]
       /\ phase = "snapshot" /\ phase' # phase =>
             /\ state'.trap_csrs = left.trap
             /\ state'.guest_vcpu_csrs = state.guest_vcpu_csrs
             /\ hw' = hw
       /\ phase = "save" /\ phase' # phase =>
             /\ state.trap_csrs = left.trap
             /\ \A r \in V1Csrs : state'.guest_vcpu_csrs[r] = left.csrs[r]
       /\ phase = "classify" /\ phase' = "idle" =>
             /\ state.trap_csrs = left.trap
             /\ exit'.kind = KindOfSnapshot]_vars

\* The classification is about to run although the trap CSRs of the CPU no
\* longer hold what the guest exit left.
C15_Witness ==
    /\ phase = "classify"
    /\ hw[cpu].trap # left.trap
    /\ state.trap_csrs = left.trap
    /\ left.trap.scause = GuestLoadPageFault

\* C16: when run_to_exit has returned on one physical CPU and the vCPU is
\* entered again, on the same or on another physical CPU, the hardware values
\* of the ten V=1 CSRs at the entry are their hardware values at the last
\* guest exit; vstimecmp is carried over too with Sstc, and without Sstc
\* neither the hardware vstimecmp nor the frame's is ever written.
C16_CsrRoundTrip ==
    /\ (phase = "switch" /\ runs > 1) =>
           /\ \A r \in V1Csrs : hw[cpu].csrs[r] = left.csrs[r]
           /\ has_sstc => hw[cpu].csrs["vstimecmp"] = left.csrs["vstimecmp"]
    /\ ~has_sstc =>
           /\ \A c \in Threads : hw[c].csrs["vstimecmp"] = Junk
           /\ state.guest_vcpu_csrs["vstimecmp"] = 0

\* The guest is entered a second time, on another physical CPU than the one
\* it left, with the CSR values it left there.
C16_Witness ==
    /\ phase = "switch" /\ runs = 2
    /\ cpu # left.cpu
    /\ has_sstc
    /\ guest.stamp > 0
    /\ \A r \in GuestCsrs : hw[cpu].csrs[r] = guest.stamp /\ hw[left.cpu].csrs[r] = guest.stamp

\* C17: outside the stub run_to_exit writes no field of the host context and
\* no guest register: after a call the guest registers are those at entry
\* XORed with the stub's constant, and under the stub of the round-trip test,
\* which leaves the host context alone, the host image of the frame is as it
\* was before the call.
C17_FrameOutsideStub ==
    /\ [][phase # "switch" =>
             /\ state'.host_regs = state.host_regs
             /\ state'.gprs = state.gprs]_vars
    /\ [](Finished =>
             /\ \A r \in Gprs :
                    state.gprs[r] = (left.gprs[r] + guest.xor) % (2 * EXT_BASE)
             /\ state.host_regs = left.host_regs
             /\ guest.stub = "test" => state.host_regs = 0)

\* The test stub XORed the guest registers with a non-zero constant and the
\* call returned the ECALL: the guest image is the XORed one, the host image
\* untouched.
C17_Witness ==
    /\ Returned
    /\ guest.stub = "test" /\ guest.xor = EXT_BASE
    /\ exit.kind = "Ecall" /\ exit.msg.some
    /\ state.gprs["a7"] = EXT_BASE /\ left.gprs["a7"] = 0
    /\ state.host_regs = 0

====
